---- MODULE Spec2Model ----
(***************************************************************************)
(* Model of the PlanPull backend (src/app.py): a Flask service over a      *)
(* SQL database with two tables, Group and Poll.  Every HTTP request runs  *)
(* in its own ORM session; the database is the only shared state.          *)
(*                                                                         *)
(* Modelling assumptions about the libraries the handlers call:            *)
(*  - Poll.query.get / Group.query.get is one SELECT of the committed row, *)
(*    unpickled into an object private to the request;                     *)
(*  - db.session.commit() after db.session.add(new_row) is one INSERT that *)
(*    takes the next integer primary key;                                  *)
(*  - db.session.commit() in vote_poll is one UPDATE of the whole options  *)
(*    column with the request's list, as the comment at app.py:109 says    *)
(*    the reassignment at app.py:110 is there to achieve;                  *)
(*  - the server handles requests on several threads and no handler takes  *)
(*    a lock, so the SELECT of one request and the UPDATE of another may   *)
(*    interleave freely.                                                   *)
(***************************************************************************)
EXTENDS Integers, Sequences, FiniteSets, TLC

\* ----------------------------------------------------------------- bounds
\* most groups and polls the store holds, longest members list a request
\* carries, and number of options of the poll that is voted on
MaxGroups == 2
MaxPolls == 2
MaxMembers == 2
NumOptions == 2

\* --------------------------------------------------------------- universes
\* user ids, and the request threads that may run vote_poll at the same time
Users == {"alice", "bob"}
Requests == {1, 2}

VARIABLES groups, polls, req, resp
vars == <<groups, polls, req, resp>>

\* ------------------------------------------------------ Python list helpers
\* x in list
PyContains(list, x) == \E k \in 1..Len(list) : list[k] = x

\* list.pop() in the place of list.remove(x): drops the last element
PyRemoveLast(list, x) ==
  IF ~PyContains(list, x) THEN list ELSE SubSeq(list, 1, Len(list) - 1)

\* list.remove(x): drops the first occurrence of x only
PyRemove(list, x) ==
  IF ~PyContains(list, x) THEN list
  ELSE LET first == CHOOSE k \in 1..Len(list) :
                      /\ list[k] = x
                      /\ \A j \in 1..(k - 1) : list[j] # x
       IN  [j \in 1..(Len(list) - 1) |-> IF j < first THEN list[j] ELSE list[j + 1]]

\* list[i] with a Python index: 0-based, negative indexes count from the end
PyIndex(list, i) == IF i >= 0 THEN i + 1 ELSE Len(list) + i + 1

\* str.strip(): a text is a sequence of characters, " " is whitespace
RECURSIVE LStrip(_)
LStrip(s) == IF s # <<>> /\ Head(s) = " " THEN LStrip(Tail(s)) ELSE s

RECURSIVE RStrip(_)
RStrip(s) == IF s # <<>> /\ s[Len(s)] = " " THEN RStrip(SubSeq(s, 1, Len(s) - 1)) ELSE s

Strip(s) == RStrip(LStrip(s))

\* ------------------------------------------------------------- responses
NoBody == [question |-> "", options |-> <<>>]
Response(op, status, message, id, body) ==
  [op |-> op, status |-> status, message |-> message, id |-> id, body |-> body]
NoResponse == Response("none", 0, "", 0, NoBody)

\* ------------------------------------------------------------ request slots
IdleReq == [pc |-> "idle", poll_id |-> 0, user_id |-> "", option_index |-> 0,
            loaded |-> <<>>, options |-> <<>>]

Init ==
  /\ groups = <<>>
  /\ polls = <<>>
  /\ req = [r \in Requests |-> IdleReq]
  /\ resp = NoResponse

\* ------------------------------------------------------------ POST /groups
\* request bodies: a JSON object is a record, its keys are its DOMAIN
NoData == [none |-> TRUE]
HasKey(data, key) == data # NoData /\ key \in DOMAIN data

MemberLists == UNION {[1..n -> Users] : n \in 0..MaxMembers}

GroupBodies ==
  {NoData}
  \cup {[name |-> n] : n \in {"", "Trip"}}
  \cup {[creator |-> c] : c \in Users \cup {""}}
  \cup {[name |-> n, creator |-> c] : n \in {"", "Trip"}, c \in Users \cup {""}}
  \cup {[name |-> n, creator |-> c, members |-> m] :
          n \in {"Trip"}, c \in Users, m \in MemberLists}

\* members_list = data.get('members', [creator]) stored as supplied
supplied_members(data) ==
  IF HasKey(data, "members") THEN data.members ELSE <<data.creator>>

\* members_list = data.get('members', [creator]); append creator if missing
effective_members(data) ==
  LET members_list == IF HasKey(data, "members") THEN data.members ELSE <<data.creator>>
  IN  IF ~PyContains(members_list, data.creator)
      THEN Append(members_list, data.creator)
      ELSE members_list

create_group(data) ==
  IF data = NoData \/ ~HasKey(data, "name") \/ ~HasKey(data, "creator")
  THEN /\ resp' = Response("create_group", 400, "Invalid input", 0, NoBody)
       /\ UNCHANGED <<groups, polls, req>>
  ELSE /\ Len(groups) < MaxGroups
       /\ groups' = Append(groups, [name |-> data.name,
                                    members |-> effective_members(data),
                                    creator |-> data.creator])
       /\ resp' = Response("create_group", 201, "Group created", Len(groups) + 1, NoBody)
       /\ UNCHANGED <<polls, req>>

CreateGroupAny == \E data \in GroupBodies : create_group(data)

\* ------------------------------------------------------------- POST /polls
Park == <<"P">>
Beach == <<"B">>
PaddedPark == <<" ", "P", " ">>
Blank == <<" ">>
Places == <<Park, Beach, <<"C">>, <<"Z">>>>

\* option lists a client may send
OptionLists == {SubSeq(Places, 1, NumOptions)}
WideOptionLists == {<<>>, <<Park>>, <<Park, Beach>>, <<PaddedPark, Beach>>,
                    <<Beach, Park>>, <<Blank, Park>>}

PollBodiesOver(groupIds, optionLists) ==
  {NoData}
  \cup {[group_id |-> g, question |-> "Where?"] : g \in groupIds}
  \cup {[group_id |-> g, options |-> o] : g \in groupIds, o \in optionLists}
  \cup {[question |-> "Where?", options |-> o] : o \in optionLists}
  \cup {[group_id |-> g, question |-> q, options |-> o] :
          g \in groupIds, q \in {"Where?"}, o \in optionLists}

\* a lookup that never misses
AnyGroupExists(id) == TRUE

\* Group.query.get(id) / Poll.query.get(id): the row exists iff its key was assigned
GroupExists(id) == id \in 1..Len(groups)
PollExists(id) == id \in 1..Len(polls)

\* [{"text": opt, "votes": []} for opt in data['options']]
unstripped_options(texts) == [k \in 1..Len(texts) |-> [text |-> texts[k], votes |-> <<>>]]

\* [{"text": opt.strip(), "votes": []} for opt in data['options']]
initial_options(texts) == [k \in 1..Len(texts) |-> [text |-> Strip(texts[k]), votes |-> <<>>]]

create_poll(data) ==
  IF data = NoData \/ ~HasKey(data, "group_id") \/ ~HasKey(data, "question")
       \/ ~HasKey(data, "options")
  THEN /\ resp' = Response("create_poll", 400, "Invalid input", 0, NoBody)
       /\ UNCHANGED <<groups, polls, req>>
  ELSE IF ~GroupExists(data.group_id)
  THEN /\ resp' = Response("create_poll", 404, "Group not found", 0, NoBody)
       /\ UNCHANGED <<groups, polls, req>>
  ELSE /\ Len(polls) < MaxPolls
       /\ polls' = Append(polls, [group_id |-> data.group_id,
                                  question |-> data.question,
                                  options |-> initial_options(data.options)])
       /\ resp' = Response("create_poll", 201, "Poll created", Len(polls) + 1, NoBody)
       /\ UNCHANGED <<groups, req>>

\* -------------------------------------------------------- GET /polls/<id>
get_poll(poll_id) ==
  /\ resp' = IF ~PollExists(poll_id)
             THEN Response("get_poll", 404, "Poll not found", poll_id, NoBody)
             ELSE Response("get_poll", 200, "", poll_id,
                           [question |-> polls[poll_id].question,
                            options |-> polls[poll_id].options])
  /\ UNCHANGED <<groups, polls, req>>

\* --------------------------------------------------- POST /polls/<id>/vote
OptionIndexes == -1..NumOptions

VoteBodies ==
  {NoData, [user_id |-> "alice"], [option_index |-> 0]}
  \cup {[user_id |-> u, option_index |-> i] : u \in Users, i \in OptionIndexes}

\* option_index < len(poll.options), the lower bound forgotten
IndexBelowLen(option_index, options) == option_index < Len(options)

\* 0 <= option_index < len(poll.options)
ValidIndex(option_index, options) == 0 <= option_index /\ option_index < Len(options)

\* no removal loop: the earlier vote stays where it is
keep_previous_vote(options, user_id) == options

\* for opt in options[:1]: the loop looks at the first option only
remove_from_first_option(options, user_id) ==
  [k \in 1..Len(options) |->
     IF k = 1 /\ PyContains(options[k].votes, user_id)
     THEN [options[k] EXCEPT !.votes = PyRemove(@, user_id)]
     ELSE options[k]]

\* for opt in options: if user_id in opt['votes']: opt['votes'].remove(user_id)
remove_previous_vote(options, user_id) ==
  [k \in 1..Len(options) |->
     IF PyContains(options[k].votes, user_id)
     THEN [options[k] EXCEPT !.votes = PyRemove(@, user_id)]
     ELSE options[k]]

\* options[option_index]['votes'].insert(0, user_id)
prepend_new_vote(options, option_index, user_id) ==
  [options EXCEPT ![PyIndex(options, option_index)].votes = <<user_id>> \o @]

\* options[option_index - 1]['votes'].append(user_id)
add_vote_one_before(options, option_index, user_id) ==
  [options EXCEPT ![PyIndex(options, option_index - 1)].votes = Append(@, user_id)]

\* options[option_index] = {"votes": votes + [user_id]}: the text is lost
rebuild_voted_option(options, option_index, user_id) ==
  [options EXCEPT ![PyIndex(options, option_index)] =
     [text |-> <<>>, votes |-> Append(@.votes, user_id)]]

\* options[option_index]['votes'].append(user_id)
add_new_vote(options, option_index, user_id) ==
  [options EXCEPT ![PyIndex(options, option_index)].votes = Append(@, user_id)]

\* the whole in-memory mutation of one vote_poll call
cast_vote(options, user_id, option_index) ==
  add_new_vote(remove_previous_vote(options, user_id), option_index, user_id)

\* a thread is free when no request runs on it
Free(r) == req[r].pc = "idle"
InFlight(r) == req[r].pc \in {"loaded", "removed"}

\* the body is validated before the poll is looked up
VoteBeginValidateFirst(r, poll_id, data) ==
  /\ Free(r)
  /\ IF data = NoData
     THEN /\ resp' = Response("vote_poll", 500, "Internal Server Error", poll_id, NoBody)
          /\ req' = [req EXCEPT ![r] = IdleReq]
     ELSE IF ~HasKey(data, "user_id") \/ ~HasKey(data, "option_index")
     THEN /\ resp' = Response("vote_poll", 400, "Invalid input", poll_id, NoBody)
          /\ req' = [req EXCEPT ![r] = IdleReq]
     ELSE IF ~PollExists(poll_id)
     THEN /\ resp' = Response("vote_poll", 404, "Poll not found", poll_id, NoBody)
          /\ req' = [req EXCEPT ![r] = IdleReq]
     ELSE IF ~ValidIndex(data.option_index, polls[poll_id].options)
     THEN /\ resp' = Response("vote_poll", 400, "Invalid option index", poll_id, NoBody)
          /\ req' = [req EXCEPT ![r] = IdleReq]
     ELSE /\ req' = [req EXCEPT ![r] = [pc |-> "loaded", poll_id |-> poll_id,
                                        user_id |-> data.user_id,
                                        option_index |-> data.option_index,
                                        loaded |-> polls[poll_id].options,
                                        options |-> polls[poll_id].options]]
          /\ UNCHANGED resp
  /\ UNCHANGED <<groups, polls>>

\* lines 81-99: read the row, validate, keep the unpickled options in the session
VoteBegin(r, poll_id, data) ==
  /\ Free(r)
  /\ IF ~PollExists(poll_id)
     THEN /\ resp' = Response("vote_poll", 404, "Poll not found", poll_id, NoBody)
          /\ req' = [req EXCEPT ![r] = IdleReq]
     ELSE IF data = NoData
     THEN /\ resp' = Response("vote_poll", 500, "Internal Server Error", poll_id, NoBody)
          /\ req' = [req EXCEPT ![r] = IdleReq]
     ELSE IF ~HasKey(data, "user_id") \/ ~HasKey(data, "option_index")
     THEN /\ resp' = Response("vote_poll", 400, "Invalid input", poll_id, NoBody)
          /\ req' = [req EXCEPT ![r] = IdleReq]
     ELSE IF ~ValidIndex(data.option_index, polls[poll_id].options)
     THEN /\ resp' = Response("vote_poll", 400, "Invalid option index", poll_id, NoBody)
          /\ req' = [req EXCEPT ![r] = IdleReq]
     ELSE /\ req' = [req EXCEPT ![r] = [pc |-> "loaded", poll_id |-> poll_id,
                                        user_id |-> data.user_id,
                                        option_index |-> data.option_index,
                                        loaded |-> polls[poll_id].options,
                                        options |-> polls[poll_id].options]]
          /\ UNCHANGED resp
  /\ UNCHANGED <<groups, polls>>

\* the removal loop followed by a commit of its own
VoteRemovePublished(r) ==
  /\ req[r].pc = "loaded"
  /\ req' = [req EXCEPT ![r].pc = "removed",
                        ![r].options = remove_previous_vote(@, req[r].user_id)]
  /\ polls' = [polls EXCEPT ![req[r].poll_id].options =
                              remove_previous_vote(req[r].options, req[r].user_id)]
  /\ UNCHANGED <<groups, resp>>

\* lines 101-104: the removal loop, on the session's private list
VoteRemove(r) ==
  /\ req[r].pc = "loaded"
  /\ req' = [req EXCEPT ![r].pc = "removed",
                        ![r].options = remove_previous_vote(@, req[r].user_id)]
  /\ UNCHANGED <<groups, polls, resp>>

\* the append, then an UPDATE that has no WHERE clause: every poll row is written
VoteCommitEveryRow(r) ==
  /\ req[r].pc = "removed"
  /\ LET options == add_new_vote(req[r].options, req[r].option_index, req[r].user_id)
     IN  /\ polls' = [q \in 1..Len(polls) |-> [polls[q] EXCEPT !.options = options]]
         /\ req' = [req EXCEPT ![r] = IdleReq]
  /\ resp' = Response("vote_poll", 200, "Vote successfully cast/updated", req[r].poll_id, NoBody)
  /\ UNCHANGED groups

\* lines 106-114: append the vote, then commit: one UPDATE of the options column
VoteCommit(r) ==
  /\ req[r].pc = "removed"
  /\ LET options == add_new_vote(req[r].options, req[r].option_index, req[r].user_id)
     IN  /\ polls' = [polls EXCEPT ![req[r].poll_id].options = options]
         /\ req' = [req EXCEPT ![r] = IdleReq]
  /\ resp' = Response("vote_poll", 200, "Vote successfully cast/updated", req[r].poll_id, NoBody)
  /\ UNCHANGED groups

\* the answer of the debugger (line 187) to an exception raised by the commit
CommitFailed == "Internal Server Error: commit failed"

\* line 112 raising after the removals of the loop reached the database
VoteCommitFailHalfWritten(r) ==
  /\ req[r].pc = "removed"
  /\ req' = [req EXCEPT ![r] = IdleReq]
  /\ polls' = [polls EXCEPT ![req[r].poll_id].options = req[r].options]
  /\ resp' = Response("vote_poll", 500, CommitFailed, req[r].poll_id, NoBody)
  /\ UNCHANGED groups

\* line 112 raising (storage failure): the transaction is rolled back
VoteCommitFail(r) ==
  /\ req[r].pc = "removed"
  /\ req' = [req EXCEPT ![r] = IdleReq]
  /\ resp' = Response("vote_poll", 500, CommitFailed, req[r].poll_id, NoBody)
  /\ UNCHANGED <<groups, polls>>

\* ------------------------------------------------------------ specifications
\* the group endpoint alone, over every shape of request body
NextGroups == CreateGroupAny
SpecGroups == Init /\ [][NextGroups]_vars

\* group and poll creation and poll reads, over every shape of request body
CreateGroupTrip == create_group([name |-> "Trip", creator |-> "alice"])
CreatePollAny ==
  \E data \in PollBodiesOver(1..(MaxGroups + 1), WideOptionLists) : create_poll(data)
GetPollAny == \E poll_id \in 1..(MaxPolls + 1) : get_poll(poll_id)

NextPolls == CreateGroupTrip \/ CreatePollAny \/ GetPollAny
SpecPolls == Init /\ [][NextPolls]_vars

\* the voting protocol on one poll, with concurrent requests
CreateGroupOnce == groups = <<>> /\ CreateGroupTrip
CreatePollWhere ==
  /\ polls = <<>>
  /\ \E data \in PollBodiesOver({1}, OptionLists) : create_poll(data)
GetPollVoted == \E poll_id \in {1, 2} : get_poll(poll_id)
VoteBeginAny ==
  \E r \in Requests, poll_id \in {1, 2}, data \in VoteBodies :
    VoteBegin(r, poll_id, data)
VoteRemoveAny == \E r \in Requests : VoteRemove(r)
VoteCommitAny == \E r \in Requests : VoteCommit(r)
VoteCommitFailAny == \E r \in Requests : VoteCommitFail(r)

Next ==
  \/ CreateGroupOnce
  \/ CreatePollWhere
  \/ VoteBeginAny
  \/ VoteRemoveAny
  \/ VoteCommitAny
  \/ VoteCommitFailAny
Spec == Init /\ [][Next]_vars

\* the same, with readers of the poll running next to the voting requests
NextRead ==
  \/ CreateGroupOnce
  \/ CreatePollWhere
  \/ GetPollVoted
  \/ VoteBeginAny
  \/ VoteRemoveAny
  \/ VoteCommitAny
  \/ VoteCommitFailAny
SpecRead == Init /\ [][NextRead]_vars

\* two polls of one group, each voted on by a request thread of its own,
\* with readers in between
CreatePollTwice ==
  /\ Len(polls) < 2
  /\ \E data \in PollBodiesOver({1}, OptionLists) : create_poll(data)
VoteBeginOwn == \E r \in Requests, data \in VoteBodies : VoteBegin(r, r, data)

NextTwoPolls ==
  \/ CreateGroupOnce
  \/ CreatePollTwice
  \/ GetPollVoted
  \/ VoteBeginOwn
  \/ VoteRemoveAny
  \/ VoteCommitAny
  \/ VoteCommitFailAny
SpecTwoPolls == Init /\ [][NextTwoPolls]_vars

\* ------------------------------------------------------------------ claims
\* the options of a poll whose vote list contains the user
VotedOptions(options, user_id) ==
  {k \in 1..Len(options) : PyContains(options[k].votes, user_id)}

\* the user whose vote was appended last to the option with Python index i
IsLastVoter(options, i, user_id) ==
  LET votes == options[i + 1].votes
  IN  votes # <<>> /\ votes[Len(votes)] = user_id

\* the request on thread r read the state that is still the committed one
ReadIsCurrent(r) == req[r].loaded = polls[req[r].poll_id].options

\* C1: in every reachable committed state, a user id is in the votes of at
\* most one option of a poll.
C1_AtMostOneVote ==
  \A p \in 1..Len(polls) : \A u \in Users :
    Cardinality(VotedOptions(polls[p].options, u)) <= 1

\* both users hold a vote while a request that read an older state of the
\* poll is about to commit
C1_Witness ==
  /\ polls # <<>>
  /\ \A u \in Users : VotedOptions(polls[1].options, u) # {}
  /\ \E r \in Requests : req[r].pc = "removed" /\ ~ReadIsCurrent(r)

\* C2: every committed vote takes effect as one unit on the state committed
\* just before it, so that overlapping requests on a poll end in the state
\* that running them one after the other gives and no vote is lost.
C2_Linearized ==
  [][\A r \in Requests :
       VoteCommit(r) =>
         polls'[req[r].poll_id].options =
           cast_vote(polls[req[r].poll_id].options, req[r].user_id, req[r].option_index)]_vars

\* C3: a vote for option i by the user whose vote for i was the one applied
\* last, run on that state, leaves the poll exactly as it was, order of the
\* voter ids included.
C3_Idempotent ==
  [][\A r \in Requests :
       ( /\ VoteCommit(r)
         /\ ReadIsCurrent(r)
         /\ IsLastVoter(polls[req[r].poll_id].options, req[r].option_index, req[r].user_id) )
       => polls' = polls]_vars

\* the repeated vote is past its removal loop: the user is out of the private
\* list and still last in the committed option, next to another voter
C3_Witness ==
  \E r \in Requests :
    /\ req[r].pc = "removed"
    /\ ReadIsCurrent(r)
    /\ IsLastVoter(polls[req[r].poll_id].options, req[r].option_index, req[r].user_id)
    /\ Len(polls[req[r].poll_id].options[req[r].option_index + 1].votes) = 2

\* C4: a vote for option j by a user whose vote for another option i was the
\* one applied last, run on that state, leaves the user out of option i and
\* in option j.
C4_VoteMove ==
  [][\A r \in Requests : \A i \in 0..(Len(req[r].loaded) - 1) :
       ( /\ VoteCommit(r)
         /\ ReadIsCurrent(r)
         /\ i # req[r].option_index
         /\ IsLastVoter(polls[req[r].poll_id].options, i, req[r].user_id) )
       => /\ ~PyContains(polls'[req[r].poll_id].options[i + 1].votes, req[r].user_id)
          /\ PyContains(polls'[req[r].poll_id].options[req[r].option_index + 1].votes,
                        req[r].user_id)]_vars

\* a vote for the second option by the user who voted last for the first is
\* past its removal loop and about to commit on the state it read
C4_Witness ==
  \E r \in Requests :
    /\ req[r].pc = "removed"
    /\ ReadIsCurrent(r)
    /\ req[r].option_index = 1
    /\ IsLastVoter(polls[req[r].poll_id].options, 0, req[r].user_id)
    /\ ~PyContains(req[r].options[1].votes, req[r].user_id)

\* C5: a vote on an existing poll whose option_index is negative or not below
\* the number of options answers 400, starts no write and changes no vote.
C5_BadIndexRejected ==
  [][\A r \in Requests : \A poll_id \in 1..Len(polls) :
     \A u \in Users : \A i \in OptionIndexes :
       ( /\ (i < 0 \/ i >= Len(polls[poll_id].options))
         /\ VoteBegin(r, poll_id, [user_id |-> u, option_index |-> i]) )
       => /\ resp'.status = 400
          /\ req'[r].pc = "idle"
          /\ polls' = polls]_vars

\* the index was refused on a poll that holds votes
C5_Witness ==
  /\ resp.op = "vote_poll" /\ resp.status = 400 /\ resp.message = "Invalid option index"
  /\ polls # <<>>
  /\ \E u \in Users : VotedOptions(polls[1].options, u) # {}

\* C6: the options a reader gets are the committed options of the poll, and
\* the committed options change only in one step from the state a vote
\* request read to that state with the vote fully applied.
C6_ReadsSeeWholeVotes ==
  [][/\ \A p \in 1..Len(polls) :
          polls'[p].options # polls[p].options =>
            \E r \in Requests :
              /\ req[r].pc = "removed" /\ req[r].poll_id = p
              /\ polls'[p].options =
                   cast_vote(req[r].loaded, req[r].user_id, req[r].option_index)
     /\ \A p \in 1..Len(polls) :
          get_poll(p) => resp'.body.options = polls[p].options]_vars

\* a reader was answered while a request had the user's old vote removed in
\* its private list and the new one not yet added
C6_Witness ==
  /\ resp.op = "get_poll" /\ resp.status = 200
  /\ \E r \in Requests :
       /\ req[r].pc = "removed" /\ req[r].poll_id = resp.id
       /\ req[r].options # req[r].loaded
       /\ resp.body.options = polls[resp.id].options
       /\ VotedOptions(resp.body.options, req[r].user_id) # {}

\* C7: once a user has a committed vote on a poll, the user has one in every
\* later state.
C7_NoRetraction ==
  [][\A p \in 1..Len(polls) : \A u \in Users :
       Cardinality(VotedOptions(polls[p].options, u)) = 1
         => Cardinality(VotedOptions(polls'[p].options, u)) = 1]_vars

\* C8: in every reachable state every stored group has its creator among
\* its members, whatever members list the request carried.
C8_CreatorIsMember ==
  \A g \in 1..Len(groups) : PyContains(groups[g].members, groups[g].creator)

\* a group whose request listed another user only: the creator was appended
C8_Witness ==
  \E g \in 1..Len(groups) :
    /\ groups[g].creator = "alice"
    /\ groups[g].members = <<"bob", "alice">>

\* C9: no user id occurs twice in the stored members of any group.
C9_MembersAreASet ==
  \A g \in 1..Len(groups) :
    \A i, j \in 1..Len(groups[g].members) :
      i # j => groups[g].members[i] # groups[g].members[j]

\* C10: a create_poll request that carries all three keys and names a group
\* id that does not exist answers 404 and leaves the stored polls as they were.
C10_UnknownGroupRejected ==
  [][\A g \in (1..(MaxGroups + 1)) \ (1..Len(groups)) : \A o \in WideOptionLists :
       create_poll([group_id |-> g, question |-> "Where?", options |-> o])
         => (resp'.status = 404 /\ polls' = polls)]_vars

\* a 404 answer to create_poll while a group and a poll already exist
C10_Witness ==
  /\ resp.op = "create_poll" /\ resp.status = 404 /\ resp.message = "Group not found"
  /\ Len(groups) >= 1 /\ Len(polls) >= 1

\* C11: a create_poll request that lacks group_id, question or options, or
\* that names an existing group and carries an empty options list, answers
\* 400 and stores no poll.
C11_IncompletePollRejected ==
  [][\A data \in PollBodiesOver(1..(MaxGroups + 1), WideOptionLists) :
       ( /\ ( \/ ~HasKey(data, "group_id") \/ ~HasKey(data, "question")
              \/ ~HasKey(data, "options")
              \/ (data.options = <<>> /\ data.group_id \in 1..Len(groups)) )
         /\ create_poll(data) )
       => (resp'.status = 400 /\ polls' = polls)]_vars

\* C12: a create_group request whose name or creator is absent or empty
\* answers 400 and stores no group.
C12_IncompleteGroupRejected ==
  [][\A data \in GroupBodies :
       ( /\ ( \/ ~HasKey(data, "name") \/ ~HasKey(data, "creator")
              \/ data.name = "" \/ data.creator = "" )
         /\ create_group(data) )
       => (resp'.status = 400 /\ groups' = groups)]_vars

\* text is the supplied string without the blanks around it
IsTrimOf(text, supplied) ==
  /\ text = <<>> \/ (text[1] # " " /\ text[Len(text)] # " ")
  /\ \E lead \in 0..Len(supplied) :
       /\ lead + Len(text) <= Len(supplied)
       /\ \A k \in 1..Len(supplied) :
            IF k > lead /\ k <= lead + Len(text)
            THEN supplied[k] = text[k - lead]
            ELSE supplied[k] = " "

\* C16: a poll created from k option texts has k options, the i-th holding
\* the i-th text without the blanks around it and no votes; a read issued
\* right after the creation returns the question and these options in order.
C16_CreatedAsSupplied ==
  [][/\ \A g \in 1..Len(groups) : \A o \in WideOptionLists :
          create_poll([group_id |-> g, question |-> "Where?", options |-> o]) =>
            LET poll == polls'[Len(polls')]
            IN  /\ Len(polls') = Len(polls) + 1
                /\ poll.question = "Where?"
                /\ Len(poll.options) = Len(o)
                /\ \A k \in 1..Len(o) :
                     /\ IsTrimOf(poll.options[k].text, o[k])
                     /\ poll.options[k].votes = <<>>
     /\ \A p \in 1..Len(polls) :
          (resp.op = "create_poll" /\ resp.status = 201 /\ resp.id = p /\ get_poll(p)) =>
            /\ resp'.status = 200
            /\ resp'.body = [question |-> polls[p].question, options |-> polls[p].options]
            /\ \A k \in 1..Len(polls[p].options) : polls[p].options[k].votes = <<>>]_vars

\* a read returned the poll made from a blank text and a place: the blank
\* text was stripped to the empty text and the order was kept
C16_Witness ==
  /\ resp.op = "get_poll" /\ resp.status = 200
  /\ resp.body.question = "Where?"
  /\ resp.body.options = <<[text |-> <<>>, votes |-> <<>>], [text |-> Park, votes |-> <<>>]>>

\* C13: no step changes the group id, the question, the number of options,
\* an option text or the order of the options of a stored poll; stored polls
\* are never removed.
C13_PollFixedButVotes ==
  [][/\ Len(polls') >= Len(polls)
     /\ \A p \in 1..Len(polls) :
          /\ polls'[p].group_id = polls[p].group_id
          /\ polls'[p].question = polls[p].question
          /\ Len(polls'[p].options) = Len(polls[p].options)
          /\ \A k \in 1..Len(polls[p].options) :
               polls'[p].options[k].text = polls[p].options[k].text]_vars

\* both polls hold votes and a poll was read
C13_Witness ==
  /\ Len(polls) = 2
  /\ \A p \in {1, 2} : \E u \in Users : VotedOptions(polls[p].options, u) # {}
  /\ resp.op = "get_poll" /\ resp.status = 200

\* C15: a committed vote on a poll leaves every group and every other poll as
\* it was, and, when no other request runs on the same poll, leaves its own
\* poll in the state the request gives when it runs alone.
C15_PollsIndependent ==
  [][\A r \in Requests :
       VoteCommit(r) =>
         LET p == req[r].poll_id
         IN  /\ groups' = groups
             /\ \A q \in (1..Len(polls)) \ {p} : polls'[q] = polls[q]
             /\ (\A other \in Requests \ {r} : req[other].poll_id # p) =>
                  polls'[p].options =
                    cast_vote(polls[p].options, req[r].user_id, req[r].option_index)]_vars

\* requests on the two polls are past their removal loops at the same time,
\* each on a poll that holds a vote
C15_Witness ==
  /\ Len(polls) = 2
  /\ \A r \in Requests : req[r].pc = "removed" /\ req[r].poll_id = r
  /\ \A p \in {1, 2} : \E u \in Users : VotedOptions(polls[p].options, u) # {}

C17_UnknownPollRejected ==
  [][/\ \A r \in Requests :
          (Free(r) /\ req'[r].pc = "loaded") => PollExists(req'[r].poll_id)
     /\ (resp'.op = "vote_poll" /\ ~PollExists(resp'.id))
          => \A r \in Requests, data \in VoteBodies :
               VoteBegin(r, resp'.id, data)
                 => (resp'.status = 404 /\ UNCHANGED <<groups, polls, req>>)
     /\ \A poll_id \in (1..(MaxPolls + 1)) \ (1..Len(polls)) :
          get_poll(poll_id)
            => (resp'.status = 404 /\ UNCHANGED <<groups, polls, req>>)]_vars

\* a vote on the unknown poll 2 was answered 404 while poll 1 holds a vote and
\* another request is in flight on it
C17_Witness ==
  /\ resp.op = "vote_poll" /\ resp.status = 404 /\ resp.id = 2
  /\ Len(polls) = 1
  /\ \E u \in Users : VotedOptions(polls[1].options, u) # {}
  /\ \E r \in Requests : InFlight(r)

\* the number of votes stored in a list of options
RECURSIVE TotalVotes(_)
TotalVotes(options) ==
  IF options = <<>> THEN 0
  ELSE Len(Head(options).votes) + TotalVotes(Tail(options))

\* the users who hold a vote in a list of options
Voters(options) == {u \in Users : VotedOptions(options, u) # {}}

\* C18: in every reachable committed state no votes list of a poll holds the
\* same user id twice, and the number of votes stored in a poll is the number
\* of users who hold a vote in it.
C18_NoDuplicateVoter ==
  \A p \in 1..Len(polls) :
    /\ \A k \in 1..Len(polls[p].options) :
         LET votes == polls[p].options[k].votes
         IN  \A a, b \in 1..Len(votes) : a # b => votes[a] # votes[b]
    /\ TotalVotes(polls[p].options) = Cardinality(Voters(polls[p].options))

\* two users share an option while one of them votes for it again: the request
\* is past its removal loop, on a list read before the other user's vote
C18_Witness ==
  \E r \in Requests :
    /\ req[r].pc = "removed"
    /\ Len(polls[req[r].poll_id].options[req[r].option_index + 1].votes) = 2
    /\ PyContains(polls[req[r].poll_id].options[req[r].option_index + 1].votes,
                  req[r].user_id)
    /\ ~ReadIsCurrent(r)

\* a votes list without the votes of one user
VotesOfOthers(votes, user_id) == SelectSeq(votes, LAMBDA v : v # user_id)

====
